---- MODULE Spec2Model ----
(***************************************************************************)
(* A model of gnomad/assessment/summary_stats.py: the frequency binner     *)
(* (freq_bin_expr), the category counter (get_summary_counts_dict), the    *)
(* summary-counts pipeline (get_summary_counts), the allele-number         *)
(* criterion (get_an_adj_criteria) and the gene-level LoF matrix builder   *)
(* (default_generate_gene_lof_matrix).                                     *)
(*                                                                         *)
(* Hail expressions are three-valued.  A boolean expression is held as one *)
(* of the strings "true", "false", "NA"; a missing string is "NA"; a       *)
(* missing integer or float is NA (-1, every defined number of the model   *)
(* being >= 0).  Allele frequencies and expression levels are fractions,   *)
(* held as integers in units of 1e-5 (AF) and of 1e-2 (mean expression,    *)
(* AN cutoff), so that every comparison of the source is exact.            *)
(***************************************************************************)
EXTENDS Integers, Sequences, FiniteSets, TLC

VARIABLES
    pc,              \* position of the call being modelled
    freq_expr,       \* freq_bin_expr: the array of frequency structs
    index,           \* freq_bin_expr: the index argument (0-based)
    freq_bin,        \* freq_bin_expr: the returned bin
    cols,            \* the matrix's samples: how many have each sex karyotype
    an_row,          \* get_an_adj_criteria: the variant row looked at
    an_args,         \* get_an_adj_criteria: samples_by_sex and freq_index
    an_adj,          \* get_an_adj_criteria: the result of the call, per cutoff
    ht_in,           \* get_summary_counts: the input table and filter_decoy
    ht,              \* get_summary_counts: the table as the pipeline rebinds it
    summary_counts,  \* get_summary_counts: the globals' total counts
    grouped,         \* get_summary_counts: the returned table, a set of rows
    lof_args,        \* default_generate_gene_lof_matrix: the keyword arguments
    mt_in,           \* default_generate_gene_lof_matrix: the input rows and tx_ht
    mt,              \* default_generate_gene_lof_matrix: the rows as mt is rebound
    explode_field,   \* default_generate_gene_lof_matrix: the local explode_field
    criteria,        \* default_generate_gene_lof_matrix: the local criteria
    lof_out          \* default_generate_gene_lof_matrix: the returned groups

binVars == <<freq_expr, index, freq_bin>>
anVars == <<an_row, an_args, an_adj>>
sumVars == <<ht_in, ht, summary_counts, grouped>>
lofVars == <<lof_args, mt_in, mt, explode_field, criteria, lof_out>>

vars == <<pc, freq_expr, index, freq_bin, cols, an_row, an_args, an_adj,
          ht_in, ht, summary_counts, grouped,
          lof_args, mt_in, mt, explode_field, criteria, lof_out>>

----------------------------------------------------------------------------
(* Hail's expression semantics, as far as the module uses them.            *)

NA == -1

hl_bool(b) == IF b THEN "true" ELSE "false"

hl_eq(a, b) == IF a = NA \/ b = NA THEN "NA" ELSE hl_bool(a = b)
hl_le(a, b) == IF a = NA \/ b = NA THEN "NA" ELSE hl_bool(a <= b)
hl_lt(a, b) == IF a = NA \/ b = NA THEN "NA" ELSE hl_bool(a < b)
hl_gt(a, b) == IF a = NA \/ b = NA THEN "NA" ELSE hl_bool(a > b)
hl_ge(a, b) == IF a = NA \/ b = NA THEN "NA" ELSE hl_bool(a >= b)

\* a == b of two strings, "NA" being the missing string
hl_eq_str(a, b) == IF a = "NA" \/ b = "NA" THEN "NA" ELSE hl_bool(a = b)

\* a & b of two boolean expressions (Kleene conjunction)
hl_and(a, b) ==
    IF a = "false" \/ b = "false" THEN "false"
    ELSE IF a = "NA" \/ b = "NA" THEN "NA"
    ELSE "true"

\* hl.case(missing_false).when(c1, v1)...when(cn, vn).default(dflt): nested
\* if_else; a missing condition makes the whole result missing, unless
\* missing_false turns it into false.  or_missing() is default("NA").
RECURSIVE hl_case_from(_, _, _, _)
hl_case_from(missing_false, whens, dflt, i) ==
    IF i > Len(whens) THEN dflt
    ELSE IF whens[i].cond = "true" THEN whens[i].then
    ELSE IF whens[i].cond = "NA" /\ ~missing_false THEN "NA"
    ELSE hl_case_from(missing_false, whens, dflt, i + 1)

hl_case(missing_false, whens, dflt) == hl_case_from(missing_false, whens, dflt, 1)

When(c, v) == [cond |-> c, then |-> v]

\* field access on a frequency struct; a field of a missing struct is missing
MissingStruct == [def |-> FALSE, AC |-> NA, AN |-> NA, AF |-> NA]
Struct(ac, an, af) == [def |-> TRUE, AC |-> ac, AN |-> an, AF |-> af]
AC_of(s) == IF s.def THEN s.AC ELSE NA
AN_of(s) == IF s.def THEN s.AN ELSE NA
AF_of(s) == IF s.def THEN s.AF ELSE NA

\* freq_expr[index]: Hail arrays are 0-based
hl_index(arr, i) == arr[i + 1]

----------------------------------------------------------------------------
(* freq_bin_expr                                                           *)

AF_1e_4 == 10
AF_1e_3 == 100
AF_1e_2 == 1000
AF_1e_1 == 10000
AF_0_95 == 95000

BinLabels ==
    {"Not found", "Singleton", "Doubleton", "AC 3 - 5", "AC 6 - 0.01%",
     "0.01% - 0.1%", "0.1% - 1%", "1% - 10%", ">95%", "10% - 95%"}

\* the rules with the AF tests ahead of the AC tests
freq_bin_expr_af_first(fe, idx) ==
    LET s == hl_index(fe, idx) IN
    hl_case(TRUE,
        << When(hl_lt(AF_of(s), AF_1e_4), "AC 6 - 0.01%"),
           When(hl_lt(AF_of(s), AF_1e_3), "0.01% - 0.1%"),
           When(hl_lt(AF_of(s), AF_1e_2), "0.1% - 1%"),
           When(hl_lt(AF_of(s), AF_1e_1), "1% - 10%"),
           When(hl_eq(AC_of(s), 0), "Not found"),
           When(hl_eq(AC_of(s), 1), "Singleton"),
           When(hl_eq(AC_of(s), 2), "Doubleton"),
           When(hl_le(AC_of(s), 5), "AC 3 - 5"),
           When(hl_gt(AF_of(s), AF_0_95), ">95%") >>,
        "10% - 95%")

\* the rules under hl.case() without missing_false
freq_bin_expr_propagating(fe, idx) ==
    LET s == hl_index(fe, idx) IN
    hl_case(FALSE,
        << When(hl_eq(AC_of(s), 0), "Not found"),
           When(hl_eq(AC_of(s), 1), "Singleton"),
           When(hl_eq(AC_of(s), 2), "Doubleton"),
           When(hl_le(AC_of(s), 5), "AC 3 - 5"),
           When(hl_lt(AF_of(s), AF_1e_4), "AC 6 - 0.01%"),
           When(hl_lt(AF_of(s), AF_1e_3), "0.01% - 0.1%"),
           When(hl_lt(AF_of(s), AF_1e_2), "0.1% - 1%"),
           When(hl_lt(AF_of(s), AF_1e_1), "1% - 10%"),
           When(hl_gt(AF_of(s), AF_0_95), ">95%") >>,
        "10% - 95%")

freq_bin_expr(fe, idx) ==
    LET s == hl_index(fe, idx) IN
    hl_case(TRUE,
        << When(hl_eq(AC_of(s), 0), "Not found"),
           When(hl_eq(AC_of(s), 1), "Singleton"),
           When(hl_eq(AC_of(s), 2), "Doubleton"),
           When(hl_le(AC_of(s), 5), "AC 3 - 5"),
           When(hl_lt(AF_of(s), AF_1e_4), "AC 6 - 0.01%"),
           When(hl_lt(AF_of(s), AF_1e_3), "0.01% - 0.1%"),
           When(hl_lt(AF_of(s), AF_1e_2), "0.1% - 1%"),
           When(hl_lt(AF_of(s), AF_1e_1), "1% - 10%"),
           When(hl_gt(AF_of(s), AF_0_95), ">95%") >>,
        "10% - 95%")

\* the values the variables of the other procedures hold while one is modelled
IdleCols == [k \in {"XY", "XX"} |-> 1]
IdleRow == [locus |-> "autosome_or_par", freq |-> <<MissingStruct>>]
IdleAnArgs == [samples_by_sex |-> <<>>, freq_index |-> 0]
IdleTable == [rows |-> <<>>, filter_decoy |-> FALSE]
IdleSummary ==
    /\ ht_in = IdleTable /\ ht = <<>> /\ summary_counts = <<>> /\ grouped = {}
IdleLof ==
    /\ lof_args = <<>> /\ mt_in = <<>> /\ mt = <<>>
    /\ explode_field = "none" /\ criteria = [policy |-> "none"] /\ lof_out = {}

\* inputs of the binner
MaxAC == 7
AFValues ==
    {0, 9, 10, 99, 100, 999, 1000, 9999, 10000, 50000, 95000, 95001, 100000}
BinStructs ==
    {Struct(ac, 20, af) : ac \in {NA} \cup (0..MaxAC), af \in {NA} \cup AFValues}
        \cup {MissingStruct}
OtherPop == Struct(6, 20, 50000)

InitBin ==
    /\ pc = "bin_ready"
    /\ \E s \in BinStructs :
         \/ freq_expr = <<s, OtherPop>> /\ index = 0
         \/ freq_expr = <<OtherPop, s>> /\ index = 1
    /\ freq_bin = "none"
    /\ cols = IdleCols /\ an_row = IdleRow /\ an_args = IdleAnArgs /\ an_adj = <<>>
    /\ IdleSummary
    /\ IdleLof

Call_freq_bin_expr ==
    /\ pc = "bin_ready"
    /\ freq_bin' = freq_bin_expr(freq_expr, index)
    /\ pc' = "bin_done"
    /\ UNCHANGED <<freq_expr, index, cols, anVars, sumVars, lofVars>>

NextBin == Call_freq_bin_expr

SpecBin == InitBin /\ [][NextBin]_vars

----------------------------------------------------------------------------
(* Claims about freq_bin_expr                                              *)

Selected == hl_index(freq_expr, index)

\* the label the ordered rule list of the specification gives
FirstTrueRule(ac, af) ==
    IF ac = 0 THEN "Not found"
    ELSE IF ac = 1 THEN "Singleton"
    ELSE IF ac = 2 THEN "Doubleton"
    ELSE IF ac >= 3 /\ ac <= 5 THEN "AC 3 - 5"
    ELSE IF af < 10 THEN "AC 6 - 0.01%"
    ELSE IF af < 100 THEN "0.01% - 0.1%"
    ELSE IF af < 1000 THEN "0.1% - 1%"
    ELSE IF af < 10000 THEN "1% - 10%"
    ELSE IF af > 95000 THEN ">95%"
    ELSE "10% - 95%"

ACOnlyLabel(ac) ==
    IF ac = 0 THEN "Not found"
    ELSE IF ac = 1 THEN "Singleton"
    ELSE IF ac = 2 THEN "Doubleton"
    ELSE "AC 3 - 5"

\* C1: for a selected struct with defined AC >= 0 and defined AF in [0,1],
\* the bin is one of the ten labels, namely the label of the first true rule
\* in the fixed order; when AC <= 5 the bin is decided by AC alone.
C1_FirstTrueRule ==
    (pc = "bin_done" /\ Selected.def /\ Selected.AC # NA /\ Selected.AF # NA)
        => /\ freq_bin \in BinLabels
           /\ freq_bin = FirstTrueRule(Selected.AC, Selected.AF)
           /\ (Selected.AC <= 5 => freq_bin = ACOnlyLabel(Selected.AC))

C1_Witness ==
    /\ pc = "bin_done"
    /\ Selected.def /\ Selected.AC = 1 /\ Selected.AF = 95001
    /\ freq_bin = "Singleton"

SomeFreqInputMissing ==
    ~Selected.def \/ Selected.AC = NA \/ Selected.AF = NA

\* C5 (as stated): when the selected struct, its AC or its AF is missing,
\* the bin is missing rather than one of the ten labels.
C5_MissingPropagates ==
    (pc = "bin_done" /\ SomeFreqInputMissing) => freq_bin = "NA"

\* the first rule that is true on the defined fields, a rule whose field is
\* missing counting as false
FirstTrueDefinedRule(s) ==
    IF s.def /\ s.AC # NA /\ s.AC <= 5 THEN ACOnlyLabel(s.AC)
    ELSE IF s.def /\ s.AF # NA THEN FirstTrueRule(6, s.AF)
    ELSE "10% - 95%"

\* C5 (amended): when the selected struct, its AC or its AF is missing, the
\* bin is never missing: a rule whose condition is missing counts as false,
\* and the bin is the label of the first rule true on the defined fields,
\* "10% - 95%" when there is none (so for a missing struct).
C5_MissingFallsThrough ==
    (pc = "bin_done" /\ SomeFreqInputMissing)
        => /\ freq_bin \in BinLabels
           /\ freq_bin = FirstTrueDefinedRule(Selected)
           /\ (~Selected.def => freq_bin = "10% - 95%")

C5_Witness ==
    /\ pc = "bin_done"
    /\ ~Selected.def
    /\ freq_bin = "10% - 95%"

----------------------------------------------------------------------------
(* get_an_adj_criteria                                                     *)

Karyotypes == {"XY", "XX", "X0"}

AN_PROPORTION_CUTOFF == 80

\* hl.agg.counter over the samples' sex: a dict of the karyotypes observed
agg_counter(c) == [k \in {x \in DOMAIN c : c[x] > 0} |-> c[k]]

\* sum(d.values())
RECURSIVE sum_over(_, _)
sum_over(d, keys) ==
    IF keys = {} THEN 0
    ELSE LET k == CHOOSE x \in keys : TRUE
         IN d[k] + sum_over(d, keys \ {k})

dict_sum(d) == sum_over(d, DOMAIN d)

\* AN >= cutoff * expected, the cutoff in hundredths
an_meets(an, cutoff, expected) ==
    IF an = NA THEN "NA" ELSE hl_bool(an * 100 >= cutoff * expected)

\* samples_by_sex_arg: <<>> for None, <<d>> for a dict d given by the caller.
\* The three thresholds are Python values, computed when the expression is
\* built: a dict without the key "XY" or "XX" raises KeyError for every row.
get_an_adj_criteria(row, sample_cols, samples_by_sex_arg, freq_index, an_proportion_cutoff) ==
    LET samples_by_sex ==
            IF samples_by_sex_arg = <<>> THEN agg_counter(sample_cols)
            ELSE samples_by_sex_arg[1]
        an == AN_of(hl_index(row.freq, freq_index))
    IN  IF "XY" \notin DOMAIN samples_by_sex \/ "XX" \notin DOMAIN samples_by_sex
        THEN "KeyError"
        ELSE hl_case(FALSE,
               << When(hl_bool(row.locus = "autosome_or_par"),
                       an_meets(an, an_proportion_cutoff, 2 * dict_sum(samples_by_sex))),
                  When(hl_bool(row.locus = "x_nonpar"),
                       an_meets(an, an_proportion_cutoff,
                                samples_by_sex["XY"] + samples_by_sex["XX"] * 2)),
                  When(hl_bool(row.locus = "y_nonpar"),
                       an_meets(an, an_proportion_cutoff, samples_by_sex["XY"])) >>,
               "NA")

\* inputs of the criterion
MaxAN == 6
MaxPerSex == 2
Cutoffs == {0, 50, AN_PROPORTION_CUTOFF}
LocusClasses == {"autosome_or_par", "x_nonpar", "y_nonpar", "other"}
OtherAN == Struct(1, 3, 50000)

InitAN ==
    /\ pc = "an_ready"
    /\ freq_expr = <<MissingStruct>> /\ index = 0 /\ freq_bin = "none"
    /\ IdleSummary
    /\ IdleLof
    /\ cols \in {c \in [Karyotypes -> 0..MaxPerSex] : \E k \in Karyotypes : c[k] > 0}
    /\ \E l \in LocusClasses, an \in {NA} \cup (0..MaxAN), i \in {0, 1} :
         /\ an_row = [locus |-> l,
                      freq |-> IF i = 0 THEN <<Struct(1, an, 50000), OtherAN>>
                               ELSE <<OtherAN, Struct(1, an, 50000)>>]
         /\ \E given \in BOOLEAN :
              an_args = [samples_by_sex |-> IF given THEN <<cols>> ELSE <<>>,
                         freq_index |-> i]
    /\ an_adj = [c \in Cutoffs |-> "uncalled"]

Call_get_an_adj_criteria ==
    /\ pc = "an_ready"
    /\ \E c \in Cutoffs :
         /\ an_adj[c] = "uncalled"
         /\ an_adj' = [an_adj EXCEPT ![c] =
                get_an_adj_criteria(an_row, cols, an_args.samples_by_sex,
                                    an_args.freq_index, c)]
    /\ UNCHANGED <<pc, binVars, cols, an_row, an_args, sumVars, lofVars>>

NextAN == Call_get_an_adj_criteria

SpecAN == InitAN /\ [][NextAN]_vars

----------------------------------------------------------------------------
(* Claims about get_an_adj_criteria                                        *)

\* the number of samples of a karyotype the call counts
SexCount(k) ==
    IF an_args.samples_by_sex = <<>> THEN cols[k]
    ELSE IF k \in DOMAIN an_args.samples_by_sex[1] THEN an_args.samples_by_sex[1][k]
    ELSE 0

ExpectedAN(l) ==
    IF l = "autosome_or_par" THEN 2 * (SexCount("XY") + SexCount("XX") + SexCount("X0"))
    ELSE IF l = "x_nonpar" THEN SexCount("XY") + 2 * SexCount("XX")
    ELSE SexCount("XY")

CalledAN == AN_of(hl_index(an_row.freq, an_args.freq_index))

\* C4: for a variant with defined AN the criterion is true iff
\* AN >= cutoff * E, with E = 2 * (all samples) on an autosomal or PAR locus,
\* #XY + 2 * #XX on X non-PAR, #XY on Y non-PAR; on any other locus it is
\* missing; a variant accepted at a cutoff is accepted at every lower one.
C4_ANCriterion ==
    (pc = "an_ready" /\ CalledAN # NA) =>
        \A c \in Cutoffs :
            an_adj[c] # "uncalled" =>
                /\ an_row.locus = "other" => an_adj[c] = "NA"
                /\ an_row.locus # "other" =>
                     /\ an_adj[c] \in {"true", "false"}
                     /\ an_adj[c] = "true"
                            <=> CalledAN * 100 >= c * ExpectedAN(an_row.locus)
                /\ \A c2 \in Cutoffs :
                     (c2 <= c /\ an_adj[c] = "true" /\ an_adj[c2] # "uncalled")
                         => an_adj[c2] = "true"

----------------------------------------------------------------------------
(* get_summary_counts_dict and get_summary_counts                          *)

\* alleles are sequences of bases.  hl.is_snp: same length, one mismatch;
\* hl.is_indel: an insertion or a deletion (the shorter allele is the first
\* base of the longer one followed by its tail).
hamming(a, b) == Cardinality({i \in 1..Len(a) : a[i] # b[i]})

hl_is_snp(ref, alt) == Len(ref) = Len(alt) /\ hamming(ref, alt) = 1

hl_is_insertion(ref, alt) ==
    /\ Len(ref) < Len(alt)
    /\ ref[1] = alt[1]
    /\ SubSeq(alt, Len(alt) - Len(ref) + 2, Len(alt)) = SubSeq(ref, 2, Len(ref))

hl_is_indel(ref, alt) == hl_is_insertion(ref, alt) \/ hl_is_insertion(alt, ref)

\* hl.is_indel(allele_expr[0], allele_expr[1]), hl.is_snp(allele_expr[0], allele_expr[1])
is_indel(allele_expr) == hl_bool(hl_is_indel(allele_expr[1], allele_expr[2]))
is_snp(allele_expr) == hl_bool(hl_is_snp(allele_expr[1], allele_expr[2]))

\* hl.agg.count_where over the rows of a table or of one group
\* (a condition that is missing is not counted)
count_where(conds) == Cardinality({i \in DOMAIN conds : conds[i] = "true"})

\* lof_expr == code, for a code that is defined
lof_is(r, code) == hl_eq_str(r.lof, code)

\* the category counter with SNVs counted as "not an indel"
get_summary_counts_dict_snp_as_rest(rows) ==
    [num_variants |-> Len(rows),
     indels |-> count_where([i \in DOMAIN rows |-> is_indel(rows[i].alleles)]),
     snps |-> count_where([i \in DOMAIN rows |-> hl_bool(is_indel(rows[i].alleles) # "true")]),
     LOF |-> count_where([i \in DOMAIN rows |-> hl_bool(rows[i].lof # "NA")]),
     pass_loftee |-> count_where([i \in DOMAIN rows |-> lof_is(rows[i], "HC")]),
     pass_loftee_no_flag |->
         count_where([i \in DOMAIN rows |-> hl_and(lof_is(rows[i], "HC"), rows[i].no_lof_flags)]),
     loftee_os |-> count_where([i \in DOMAIN rows |-> lof_is(rows[i], "OS")]),
     fail_loftee |-> count_where([i \in DOMAIN rows |-> lof_is(rows[i], "LC")])]

\* the eight counts; prefix_str only renames the keys, so the same field
\* names stand for the "total_" counts and for the per-bin counts
get_summary_counts_dict(rows) ==
    [num_variants |-> Len(rows),
     indels |-> count_where([i \in DOMAIN rows |-> is_indel(rows[i].alleles)]),
     snps |-> count_where([i \in DOMAIN rows |-> is_snp(rows[i].alleles)]),
     LOF |-> count_where([i \in DOMAIN rows |-> hl_bool(rows[i].lof # "NA")]),
     pass_loftee |-> count_where([i \in DOMAIN rows |-> lof_is(rows[i], "HC")]),
     pass_loftee_no_flag |->
         count_where([i \in DOMAIN rows |-> hl_and(lof_is(rows[i], "HC"), rows[i].no_lof_flags)]),
     loftee_os |-> count_where([i \in DOMAIN rows |-> lof_is(rows[i], "OS")]),
     fail_loftee |-> count_where([i \in DOMAIN rows |-> lof_is(rows[i], "LC")])]

CountFields ==
    {"num_variants", "indels", "snps", "LOF", "pass_loftee",
     "pass_loftee_no_flag", "loftee_os", "fail_loftee"}

\* ht.filter(hl.len(ht[filter_field]) == 0)
filter_pass(rows) == SelectSeq(rows, LAMBDA r : Cardinality(r.filters) = 0)

\* filter_low_conf_regions: drops the rows of low-confidence regions, and
\* those of decoy regions when filter_decoy is set
filter_low_conf_regions(rows, filter_decoy) ==
    SelectSeq(rows, LAMBDA r : r.region # "low_conf"
                               /\ (filter_decoy => r.region # "decoy"))

\* filter_vep_to_canonical_transcripts, get_most_severe_consequence_for_summary:
\* keep every row and annotate it with the LoF call and the no-flags boolean
\* of its canonical, most severe consequence
vep_summary(rows) ==
    [i \in 1..Len(rows) |->
        [filters |-> rows[i].filters, region |-> rows[i].region,
         freq |-> rows[i].freq, alleles |-> rows[i].alleles,
         lof |-> rows[i].vep.lof, no_lof_flags |-> rows[i].vep.no_lof_flags]]

\* ht.annotate(freq_bin=freq_bin_expr(ht[freq_field]))
annotate_freq_bin(rows) ==
    [i \in 1..Len(rows) |->
        [alleles |-> rows[i].alleles, lof |-> rows[i].lof,
         no_lof_flags |-> rows[i].no_lof_flags,
         freq_bin |-> freq_bin_expr(rows[i].freq, 0)]]

group_rows(rows, b) == SelectSeq(rows, LAMBDA r : r.freq_bin = b)

GroupRow(b, counts) == [freq_bin |-> b, counts |-> counts]

\* a grouping that keeps one record of each bin
group_by_freq_bin_distinct(rows) ==
    {GroupRow(b, get_summary_counts_dict(SubSeq(group_rows(rows, b), 1, 1))) :
        b \in {rows[i].freq_bin : i \in 1..Len(rows)}}

\* a grouping over the fixed enumeration of the bins
group_by_freq_bin_dense(rows) ==
    {GroupRow(b, get_summary_counts_dict(group_rows(rows, b))) : b \in BinLabels}

\* ht.group_by("freq_bin").aggregate(**get_summary_counts_dict(...)): one row
\* for each key value some record has
group_by_freq_bin(rows) ==
    {GroupRow(b, get_summary_counts_dict(group_rows(rows, b))) :
        b \in {rows[i].freq_bin : i \in 1..Len(rows)}}

\* inputs of the pipeline
MaxRows == 2

SNV == <<(<<"A">>), (<<"C">>)>>
INS == <<(<<"A">>), (<<"A", "C">>)>>
DEL == <<(<<"A", "C">>), (<<"A">>)>>
MNV == <<(<<"A", "C">>), (<<"C", "A">>)>>
CPX == <<(<<"A">>), (<<"C", "A">>)>>

Vep(lof, no_lof_flags) == [lof |-> lof, no_lof_flags |-> no_lof_flags]

VariantKinds ==
    { [freq |-> <<Struct(1, 20, 5000)>>, alleles |-> SNV, vep |-> Vep("NA", "NA")],
      [freq |-> <<Struct(1, 20, 5000)>>, alleles |-> INS, vep |-> Vep("HC", "true")],
      [freq |-> <<Struct(10, 20, 50000)>>, alleles |-> MNV, vep |-> Vep("HC", "false")],
      [freq |-> <<MissingStruct>>, alleles |-> SNV, vep |-> Vep("LC", "true")],
      [freq |-> <<Struct(0, 20, 0)>>, alleles |-> DEL, vep |-> Vep("OS", "NA")],
      [freq |-> <<Struct(10, 10, 100000)>>, alleles |-> CPX, vep |-> Vep("NA", "NA")] }

RowStatuses ==
    { [filters |-> {}, region |-> "ok"],
      [filters |-> {"AC0"}, region |-> "ok"],
      [filters |-> {}, region |-> "low_conf"],
      [filters |-> {}, region |-> "decoy"] }

TableRows ==
    { [filters |-> st.filters, region |-> st.region,
       freq |-> k.freq, alleles |-> k.alleles, vep |-> k.vep] :
        st \in RowStatuses, k \in VariantKinds }

Tables == UNION {[1..n -> TableRows] : n \in 0..MaxRows}

InitSummary ==
    /\ pc = "sum_ready"
    /\ freq_expr = <<MissingStruct>> /\ index = 0 /\ freq_bin = "none"
    /\ cols = IdleCols /\ an_row = IdleRow /\ an_args = IdleAnArgs /\ an_adj = <<>>
    /\ IdleLof
    /\ \E t \in Tables, d \in BOOLEAN : ht_in = [rows |-> t, filter_decoy |-> d]
    /\ ht = ht_in.rows
    /\ summary_counts = <<>>
    /\ grouped = {}

FilterPass ==
    /\ pc = "sum_ready"
    /\ ht' = filter_pass(ht)
    /\ pc' = "sum_pass"
    /\ UNCHANGED <<binVars, cols, anVars, lofVars, ht_in, summary_counts, grouped>>

FilterLowConf ==
    /\ pc = "sum_pass"
    /\ ht' = filter_low_conf_regions(ht, ht_in.filter_decoy)
    /\ pc' = "sum_high_conf"
    /\ UNCHANGED <<binVars, cols, anVars, lofVars, ht_in, summary_counts, grouped>>

VepSummary ==
    /\ pc = "sum_high_conf"
    /\ ht' = vep_summary(ht)
    /\ pc' = "sum_vep"
    /\ UNCHANGED <<binVars, cols, anVars, lofVars, ht_in, summary_counts, grouped>>

AnnotateFreqBin ==
    /\ pc = "sum_vep"
    /\ ht' = annotate_freq_bin(ht)
    /\ pc' = "sum_binned"
    /\ UNCHANGED <<binVars, cols, anVars, lofVars, ht_in, summary_counts, grouped>>

AggregateTotals ==
    /\ pc = "sum_binned"
    /\ summary_counts' = <<get_summary_counts_dict(ht)>>
    /\ pc' = "sum_totals"
    /\ UNCHANGED <<binVars, cols, anVars, lofVars, ht_in, ht, grouped>>

GroupByFreqBin ==
    /\ pc = "sum_totals"
    /\ grouped' = group_by_freq_bin(ht)
    /\ pc' = "sum_done"
    /\ UNCHANGED <<binVars, cols, anVars, lofVars, ht_in, ht, summary_counts>>

NextSummary ==
    \/ FilterPass
    \/ FilterLowConf
    \/ VepSummary
    \/ AnnotateFreqBin
    \/ AggregateTotals
    \/ GroupByFreqBin

SpecSummary == InitSummary /\ [][NextSummary]_vars

----------------------------------------------------------------------------
(* default_generate_gene_lof_matrix                                        *)

AF_0_05 == 5000
EXPR_HIGH == 90
EXPR_LOW == 10

LOF_CSQ_SET == {"splice_acceptor_variant", "splice_donor_variant", "stop_gained",
                "frameshift_variant"}
ADDITIONAL_CSQ_SET == {"missense_variant", "synonymous_variant"}

\* the consequence terms of the model, most severe first
CSQ_ORDER == <<"stop_gained", "missense_variant", "synonymous_variant", "intron_variant">>

csq_rank(t) == CHOOSE i \in 1..Len(CSQ_ORDER) : CSQ_ORDER[i] = t

most_severe(terms) ==
    CHOOSE t \in terms : \A u \in terms : csq_rank(t) <= csq_rank(u)

\* add_most_severe_consequence_to_consequence(x).most_severe_consequence
add_most_severe_consequence_to_consequence(x) ==
    [gene_id |-> x.gene_id, gene_symbol |-> x.gene_symbol,
     transcript_id |-> x.transcript_id, canonical |-> x.canonical,
     lof |-> x.lof, lof_flags |-> x.lof_flags,
     consequence_terms |-> x.consequence_terms,
     most_severe_consequence |-> most_severe(x.consequence_terms)]

\* process_consequences: worst_csq_by_gene holds, for each gene of the row,
\* its consequence of the most severe term (the first of them)
worst_csq_of_gene(tc, g) ==
    LET idx == {i \in 1..Len(tc) : tc[i].gene_id = g}
        best == CHOOSE i \in idx :
                   \A j \in idx :
                      \/ csq_rank(most_severe(tc[i].consequence_terms))
                            < csq_rank(most_severe(tc[j].consequence_terms))
                      \/ /\ csq_rank(most_severe(tc[i].consequence_terms))
                              = csq_rank(most_severe(tc[j].consequence_terms))
                         /\ i <= j
    IN  add_most_severe_consequence_to_consequence(tc[best])

worst_csq_by_gene(tc) ==
    LET has(g) == \E i \in 1..Len(tc) : tc[i].gene_id = g
    IN  (IF has("g1") THEN <<worst_csq_of_gene(tc, "g1")>> ELSE <<>>)
            \o (IF has("g2") THEN <<worst_csq_of_gene(tc, "g2")>> ELSE <<>>)

process_consequences(rows) ==
    [i \in 1..Len(rows) |->
        [rows[i] EXCEPT !.vep =
            [transcript_consequences |-> rows[i].vep.transcript_consequences,
             worst_csq_by_gene |-> worst_csq_by_gene(rows[i].vep.transcript_consequences)]]]

\* samples_by_sex[xy_str], samples_by_sex[xx_str] of a dict without the key
an_key_error(sample_cols, samples_by_sex_arg) ==
    get_an_adj_criteria(IdleRow, sample_cols, samples_by_sex_arg, 0, 0) = "KeyError"

\* the row filter with the AN criterion called with the caller's freq_index
filt_criteria_an_at_index(r, sample_cols, args) ==
    LET pass == hl_bool(Cardinality(r.filters) = 0)
        an == IF args.filter_an
              THEN hl_and(pass, get_an_adj_criteria([locus |-> r.locus,
                                                     freq |-> r[args.freq_field]],
                                                    sample_cols, <<>>, args.freq_index,
                                                    AN_PROPORTION_CUTOFF))
              ELSE pass
        af == AF_of(hl_index(r[args.freq_field], args.freq_index))
        uc == IF args.remove_ultra_common THEN hl_and(an, hl_lt(af, AF_0_95)) ELSE an
    IN  IF args.filter_to_rare THEN hl_and(uc, hl_lt(af, AF_0_05)) ELSE uc

\* the row filter with the rare test assigned (=) instead of conjoined (&=)
filt_criteria_rare_assigned(r, sample_cols, args) ==
    LET pass == hl_bool(Cardinality(r.filters) = 0)
        an == IF args.filter_an
              THEN hl_and(pass, get_an_adj_criteria(r, sample_cols, <<>>, 0,
                                                    AN_PROPORTION_CUTOFF))
              ELSE pass
        af == AF_of(hl_index(r[args.freq_field], args.freq_index))
        uc == IF args.remove_ultra_common THEN hl_and(an, hl_lt(af, AF_0_95)) ELSE an
    IN  IF args.filter_to_rare THEN hl_lt(af, AF_0_05) ELSE uc

\* filt_criteria of lines 264-270, for one row; get_an_adj_criteria(mt) is
\* called with its own defaults (samples_by_sex None, 'freq', index 0, 0.8)
filt_criteria(r, sample_cols, args) ==
    LET pass == hl_bool(Cardinality(r.filters) = 0)
        an == IF args.filter_an
              THEN hl_and(pass, get_an_adj_criteria(r, sample_cols, <<>>, 0,
                                                    AN_PROPORTION_CUTOFF))
              ELSE pass
        af == AF_of(hl_index(r[args.freq_field], args.freq_index))
        uc == IF args.remove_ultra_common THEN hl_and(an, hl_lt(af, AF_0_95)) ELSE an
    IN  IF args.filter_to_rare THEN hl_and(uc, hl_lt(af, AF_0_05)) ELSE uc

\* mt.filter_rows(filt_criteria): the rows for which it is true
filter_rows(rows, sample_cols, args) ==
    SelectSeq(rows, LAMBDA r : filt_criteria(r, sample_cols, args) = "true")

\* the criteria lambda of lines 279-285, applied to a consequence x
lof_criteria(policy, x) ==
    IF policy = "pre_loftee"
    THEN hl_bool(add_most_severe_consequence_to_consequence(x).most_severe_consequence
                    \in LOF_CSQ_SET)
    ELSE hl_and(hl_eq_str(x.lof, "HC"), hl_bool(x.lof_flags = "NA"))

\* mt.vep[explode_field].filter(criteria)
filter_csqs(csqs, policy) ==
    SelectSeq(csqs, LAMBDA x : lof_criteria(policy, x) = "true")

\* select_rows(mt[freq_field], csqs=csqs) and explode_rows(mt.csqs): one row
\* for each consequence kept; the row fields left are freq_field and csqs
RECURSIVE explode_rows(_, _, _, _)
explode_rows(rows, field, policy, freq_field) ==
    IF rows = <<>> THEN <<>>
    ELSE LET r == Head(rows)
             kept == filter_csqs(r.vep[field], policy)
         IN  [j \in 1..Len(kept) |->
                 [key |-> r.key, alleles |-> r.alleles,
                  freq_field |-> freq_field, freq_sel |-> r[freq_field],
                  csqs |-> kept[j]]]
             \o explode_rows(Tail(rows), field, policy, freq_field)

\* annotate_tx_expression_data(mt, tx_ht, mt.csqs): hl.find of the first entry
\* of tx_ht[key].tx_annotation for the row's gene and consequence; its
\* mean_expression is missing when there is no such entry
annotate_tx_expression_data(key, tx_table, csq_expr) ==
    IF key \notin DOMAIN tx_table THEN NA
    ELSE LET arr == tx_table[key]
             hits == {i \in 1..Len(arr) :
                         /\ arr[i].ensg = csq_expr.gene_id
                         /\ arr[i].csq = csq_expr.most_severe_consequence}
         IN  IF hits = {} THEN NA
             ELSE arr[CHOOSE i \in hits : \A j \in hits : i <= j].mean_expression

\* the "expressed" case of lines 305-311
expressed_expr(tx_annotation) ==
    hl_case(FALSE,
        << When(hl_ge(tx_annotation, EXPR_HIGH), "high"),
           When(hl_gt(tx_annotation, EXPR_LOW), "medium"),
           When(hl_bool(tx_annotation # NA), "low") >>,
        "missing")

\* annotation_expr of lines 296-314 for an exploded row
annotation_expr(r, tx_arg) ==
    IF tx_arg # <<>>
    THEN [gene_id |-> r.csqs.gene_id, gene |-> r.csqs.gene_symbol,
          indel |-> is_indel(r.alleles),
          most_severe_consequence |-> r.csqs.most_severe_consequence,
          expressed |-> expressed_expr(
                            annotate_tx_expression_data(r.key, tx_arg[1], r.csqs)),
          transcript_id |-> "NA", canonical |-> "NA"]
    ELSE [gene_id |-> r.csqs.gene_id, gene |-> r.csqs.gene_symbol,
          indel |-> is_indel(r.alleles),
          most_severe_consequence |-> r.csqs.most_severe_consequence,
          expressed |-> "none",
          transcript_id |-> r.csqs.transcript_id,
          canonical |-> hl_bool(r.csqs.canonical # NA)]

annotate_rows(rows, tx_arg) ==
    [i \in 1..Len(rows) |->
        [key |-> rows[i].key, freq_field |-> rows[i].freq_field,
         freq_sel |-> rows[i].freq_sel, group |-> annotation_expr(rows[i], tx_arg)]]

\* group_rows_by(*annotation_expr.keys()).aggregate_rows(n_sites=hl.agg.count(), ...)
group_rows_by(rows) ==
    { [group |-> g,
       n_sites |-> Cardinality({i \in 1..Len(rows) : rows[i].group = g})] :
        g \in {rows[i].group : i \in 1..Len(rows)} }

FilterRows ==
    /\ pc = "lof_ready"
    /\ IF lof_args.filter_an /\ an_key_error(cols, <<>>)
       THEN pc' = "KeyError" /\ mt' = mt
       ELSE pc' = "lof_filtered" /\ mt' = filter_rows(mt, cols, lof_args)
    /\ UNCHANGED <<binVars, cols, anVars, sumVars, lof_args, mt_in,
                   explode_field, criteria, lof_out>>

ChooseExplodeField ==
    /\ pc = "lof_filtered"
    /\ IF lof_args.all_transcripts
       THEN explode_field' = "transcript_consequences" /\ mt' = mt
       ELSE explode_field' = "worst_csq_by_gene" /\ mt' = process_consequences(mt)
    /\ pc' = "lof_field"
    /\ UNCHANGED <<binVars, cols, anVars, sumVars, lof_args, mt_in, criteria, lof_out>>

\* lines 279-291: criteria is a Python function, and `criteria &= lambda`
\* raises TypeError (function & function) when additional_csq_set is not empty
BuildCriteria ==
    /\ pc = "lof_field"
    /\ criteria' = [policy |-> IF lof_args.pre_loftee THEN "pre_loftee" ELSE "loftee"]
    /\ pc' = IF lof_args.additional_csq_set # {} THEN "TypeError" ELSE "lof_criteria"
    /\ UNCHANGED <<binVars, cols, anVars, sumVars, lof_args, mt_in, mt,
                   explode_field, lof_out>>

FilterAndExplode ==
    /\ pc = "lof_criteria"
    /\ mt' = explode_rows(mt, explode_field, criteria.policy, lof_args.freq_field)
    /\ pc' = "lof_exploded"
    /\ UNCHANGED <<binVars, cols, anVars, sumVars, lof_args, mt_in,
                   explode_field, criteria, lof_out>>

AnnotateRows ==
    /\ pc = "lof_exploded"
    /\ mt' = annotate_rows(mt, mt_in.tx_ht)
    /\ pc' = "lof_annotated"
    /\ UNCHANGED <<binVars, cols, anVars, sumVars, lof_args, mt_in,
                   explode_field, criteria, lof_out>>

\* lines 317-332; line 321 reads mt.freq, a field select_rows kept only when
\* freq_field is 'freq'
AggregateGroups ==
    /\ pc = "lof_annotated"
    /\ IF lof_args.freq_field # "freq"
       THEN pc' = "AttributeError" /\ lof_out' = lof_out
       ELSE pc' = "lof_done" /\ lof_out' = group_rows_by(mt)
    /\ UNCHANGED <<binVars, cols, anVars, sumVars, lof_args, mt_in, mt,
                   explode_field, criteria>>

NextLof ==
    \/ FilterRows
    \/ ChooseExplodeField
    \/ BuildCriteria
    \/ FilterAndExplode
    \/ AnnotateRows
    \/ AggregateGroups

\* inputs of the matrix builder
Csq(g, tid, canonical, lof, flags, terms) ==
    add_most_severe_consequence_to_consequence(
        [gene_id |-> g, gene_symbol |-> g, transcript_id |-> tid,
         canonical |-> canonical, lof |-> lof, lof_flags |-> flags,
         consequence_terms |-> terms])

CsqEntries ==
    { Csq("g1", "t1", 1, "HC", "NA", {"stop_gained"}),
      Csq("g1", "t2", NA, "HC", "SINGLE_EXON", {"stop_gained", "intron_variant"}),
      Csq("g1", "t3", NA, "NA", "NA", {"missense_variant"}),
      Csq("g2", "t4", 1, "LC", "NA", {"stop_gained"}),
      Csq("g2", "t5", NA, "NA", "NA", {"synonymous_variant", "intron_variant"}),
      Csq("g2", "t6", NA, "NA", "NA", {"intron_variant"}) }

MaxCsqs == 2
CsqLists == UNION {[1..n -> CsqEntries] : n \in 0..MaxCsqs}

Tx(g, c, m) == [ensg |-> g, csq |-> c, mean_expression |-> m]

TxTables ==
    { (1 :> << Tx("g1", "stop_gained", 90), Tx("g2", "stop_gained", NA) >>),
      (1 :> << Tx("g1", "stop_gained", 50), Tx("g1", "stop_gained", 95),
               Tx("g2", "stop_gained", 10) >>),
      (2 :> << Tx("g1", "stop_gained", 95) >>) }

MtRow(k, filters, locus, f0, f1, a0, alleles, tc) ==
    [key |-> k, filters |-> filters, locus |-> locus,
     freq |-> <<f0, f1>>, alt_freq |-> <<a0, f0>>,
     alleles |-> alleles, vep |-> [transcript_consequences |-> tc]]

Args(field, idx, additional, all_tx, fan, rare, pre, uc) ==
    [freq_field |-> field, freq_index |-> idx, additional_csq_set |-> additional,
     all_transcripts |-> all_tx, filter_an |-> fan, filter_to_rare |-> rare,
     pre_loftee |-> pre, remove_ultra_common |-> uc]

FreqChoices == {<<"freq", 0>>, <<"freq", 1>>, <<"alt_freq", 0>>}

\* the rows the row filter tells apart: filters, locus class, AN and AF
FilterCases ==
    { [filters |-> {}, locus |-> "autosome_or_par", f0 |-> Struct(1, 4, 1000),
       f1 |-> Struct(1, 0, 96000), a0 |-> Struct(1, 0, 50000)],
      [filters |-> {}, locus |-> "autosome_or_par", f0 |-> Struct(1, 3, 50000),
       f1 |-> Struct(1, 4, 1000), a0 |-> Struct(1, 4, NA)],
      [filters |-> {}, locus |-> "x_nonpar", f0 |-> Struct(1, 3, 96000),
       f1 |-> MissingStruct, a0 |-> Struct(1, 0, 1000)],
      [filters |-> {}, locus |-> "other", f0 |-> Struct(1, 4, 1000),
       f1 |-> Struct(1, 4, 50000), a0 |-> Struct(1, 4, 96000)],
      [filters |-> {}, locus |-> "y_nonpar", f0 |-> MissingStruct,
       f1 |-> Struct(1, 4, 1000), a0 |-> Struct(1, 4, 5000)],
      [filters |-> {"RF"}, locus |-> "autosome_or_par", f0 |-> Struct(1, 4, 1000),
       f1 |-> Struct(1, 4, 1000), a0 |-> Struct(1, 4, 1000)] }

MaxMtRows == 2
SampleCols == { [k \in Karyotypes |-> IF k = "X0" THEN 0 ELSE 1],
                [k \in Karyotypes |-> IF k = "XX" THEN 2 ELSE 0] }
FixedCsqs == << Csq("g1", "t1", 1, "HC", "NA", {"stop_gained"}),
                Csq("g2", "t6", NA, "NA", "NA", {"intron_variant"}) >>

\* the row-filter inputs: every filter argument, tables of filter cases
InitLofRows ==
    /\ pc = "lof_ready"
    /\ freq_expr = <<MissingStruct>> /\ index = 0 /\ freq_bin = "none"
    /\ an_row = IdleRow /\ an_args = IdleAnArgs /\ an_adj = <<>>
    /\ IdleSummary
    /\ cols \in SampleCols
    /\ \E n \in 1..MaxMtRows :
         \E cs \in [1..n -> FilterCases] :
            mt = [i \in 1..n |->
                    MtRow(i, cs[i].filters, cs[i].locus, cs[i].f0, cs[i].f1,
                          cs[i].a0, SNV, FixedCsqs)]
    /\ mt_in = [rows |-> mt, tx_ht |-> <<>>]
    /\ \E fc \in FreqChoices, fan \in BOOLEAN, rare \in BOOLEAN, uc \in BOOLEAN,
          additional \in {{}, ADDITIONAL_CSQ_SET} :
         lof_args = Args(fc[1], fc[2], additional, FALSE, fan, rare, FALSE, uc)
    /\ explode_field = "none" /\ criteria = [policy |-> "none"] /\ lof_out = {}

SpecLofRows == InitLofRows /\ [][NextLof]_vars

\* the consequence inputs: every consequence argument, one row of consequences
InitLofCsqs ==
    /\ pc = "lof_ready"
    /\ freq_expr = <<MissingStruct>> /\ index = 0 /\ freq_bin = "none"
    /\ an_row = IdleRow /\ an_args = IdleAnArgs /\ an_adj = <<>>
    /\ IdleSummary
    /\ cols \in SampleCols
    /\ \E tc \in CsqLists, al \in {SNV, INS} :
         mt = << MtRow(1, {}, "autosome_or_par", Struct(1, 4, 1000),
                       Struct(1, 4, 1000), Struct(1, 4, 1000), al, tc) >>
    /\ \E tx \in {<<>>} \cup {<<t>> : t \in TxTables} :
         mt_in = [rows |-> mt, tx_ht |-> tx]
    /\ \E fc \in {<<"freq", 0>>, <<"alt_freq", 0>>}, fan \in BOOLEAN,
          additional \in {{}, ADDITIONAL_CSQ_SET}, all_tx \in BOOLEAN,
          pre \in BOOLEAN :
         lof_args = Args(fc[1], fc[2], additional, all_tx, fan, FALSE, pre, FALSE)
    /\ explode_field = "none" /\ criteria = [policy |-> "none"] /\ lof_out = {}

SpecLofCsqs == InitLofCsqs /\ [][NextLof]_vars

----------------------------------------------------------------------------
(* Claims about get_summary_counts and get_summary_counts_dict             *)

RECURSIVE SumCounts(_, _)
SumCounts(groups, f) ==
    IF groups = {} THEN 0
    ELSE LET g == CHOOSE x \in groups : TRUE
         IN g.counts[f] + SumCounts(groups \ {g}, f)

\* C3: each global total equals the sum of the per-bin count over the rows
\* of the returned table; every record that is counted in the totals is in
\* exactly one bin's row.
C3_TotalsAreBinSums ==
    pc = "sum_done" =>
        /\ \A f \in CountFields : summary_counts[1][f] = SumCounts(grouped, f)
        /\ \A i \in 1..Len(ht) :
             Cardinality({g \in grouped : g.freq_bin = ht[i].freq_bin}) = 1

C3_Witness ==
    /\ pc = "sum_done"
    /\ summary_counts[1].num_variants = 2
    /\ summary_counts[1].LOF = 2
    /\ Cardinality(grouped) = 2

\* the input records that pass the filters: an empty filter set, a
\* high-confidence region
Survives(r) ==
    /\ r.filters = {}
    /\ r.region # "low_conf"
    /\ (ht_in.filter_decoy => r.region # "decoy")

Survivors == {i \in 1..Len(ht_in.rows) : Survives(ht_in.rows[i])}

SurvivorsIn(b) == {i \in Survivors : freq_bin_expr(ht_in.rows[i].freq, 0) = b}

\* C8: the returned table has exactly one row for each frequency bin that a
\* surviving record falls into: every row has num_variants >= 1 (the number
\* of surviving records of its bin), no two rows share a bin, a bin without
\* surviving records has no row, and a record with a non-empty filter set
\* is in no row and in no total.
C8_OneRowPerObservedBin ==
    pc = "sum_done" =>
        /\ {g.freq_bin : g \in grouped} = {b \in BinLabels \cup {"NA"} : SurvivorsIn(b) # {}}
        /\ \A g \in grouped :
             /\ g.counts.num_variants >= 1
             /\ g.counts.num_variants = Cardinality(SurvivorsIn(g.freq_bin))
        /\ \A g1, g2 \in grouped : g1.freq_bin = g2.freq_bin => g1 = g2
        /\ summary_counts[1].num_variants = Cardinality(Survivors)

C8_Witness ==
    /\ pc = "sum_done"
    /\ Len(ht_in.rows) = 2
    /\ \E i \in 1..2 : ht_in.rows[i].filters # {}
    /\ Cardinality(grouped) = 1
    /\ \A g \in grouped : g.counts.num_variants = 1

NeitherCount(rows) ==
    Cardinality({i \in 1..Len(rows) :
                    /\ ~hl_is_indel(rows[i].alleles[1], rows[i].alleles[2])
                    /\ ~hl_is_snp(rows[i].alleles[1], rows[i].alleles[2])})

CountsConsistent(counts, rows) ==
    /\ \A f \in CountFields : counts[f] \in Nat
    /\ counts.num_variants = counts.indels + counts.snps + NeitherCount(rows)
    /\ (NeitherCount(rows) = 0 => counts.num_variants = counts.indels + counts.snps)

\* C9: for every group of records that is aggregated (the whole filtered
\* table, and each bin's records) the eight counts are non-negative
\* integers and num_variants = indels + snps + (records that are neither),
\* so no record is counted as both an indel and an SNV.
C9_CountsSum ==
    /\ pc \in {"sum_totals", "sum_done"} => CountsConsistent(summary_counts[1], ht)
    /\ pc = "sum_done" =>
         \A g \in grouped : CountsConsistent(g.counts, group_rows(ht, g.freq_bin))

C9_Witness ==
    /\ pc = "sum_done"
    /\ summary_counts[1].num_variants = 2
    /\ summary_counts[1].indels = 1
    /\ summary_counts[1].snps = 0

----------------------------------------------------------------------------
(* Claims about default_generate_gene_lof_matrix                           *)

RowKeys(rows) == {rows[i].key : i \in 1..Len(rows)}

InputRow(k) == mt_in.rows[CHOOSE i \in 1..Len(mt_in.rows) : mt_in.rows[i].key = k]

\* the AF the caller's freq_field and freq_index select
SelectedAF(r) == AF_of(hl_index(r[lof_args.freq_field], lof_args.freq_index))

\* the rows the row filter retains under the same arguments but
\* filter_to_rare=False
RetainedNotRare ==
    RowKeys(filter_rows(mt_in.rows, cols, [lof_args EXCEPT !.filter_to_rare = FALSE]))

\* C7 (as stated): the rows retained with filter_to_rare=True are a strict
\* subset of the rows retained with filter_to_rare=False.
C7_StrictSubset ==
    (pc = "lof_filtered" /\ lof_args.filter_to_rare)
        => (RowKeys(mt) \subseteq RetainedNotRare /\ RowKeys(mt) # RetainedNotRare)

\* C7 (amended): the rows retained with filter_to_rare=True are a subset,
\* not always a strict one, of those retained with filter_to_rare=False:
\* exactly the ones whose selected AF is defined and < 0.05; the two sets
\* are equal when there is no other row.
C7_Subset ==
    (pc = "lof_filtered" /\ lof_args.filter_to_rare)
        => /\ RowKeys(mt) \subseteq RetainedNotRare
           /\ RowKeys(mt) = {k \in RetainedNotRare :
                                /\ SelectedAF(InputRow(k)) # NA
                                /\ SelectedAF(InputRow(k)) < 5000}

C7_Witness ==
    /\ pc = "lof_filtered"
    /\ lof_args.filter_to_rare
    /\ RowKeys(mt) # {}
    /\ RowKeys(mt) # RetainedNotRare

\* the AN conjunct as the claim states it: AN of mt.freq[0] against 0.8 of
\* the expected allele number, the sex counts being those of the samples
ANConjunctAccepts(r) ==
    LET an == AN_of(r.freq[1])
        expected ==
            IF r.locus = "autosome_or_par" THEN 2 * (cols["XY"] + cols["XX"] + cols["X0"])
            ELSE IF r.locus = "x_nonpar" THEN cols["XY"] + 2 * cols["XX"]
            ELSE cols["XY"]
    IN  /\ r.locus # "other"
        /\ an # NA
        /\ an * 100 >= 80 * expected

AFBelow(r, limit) == SelectedAF(r) # NA /\ SelectedAF(r) < limit

CsqsBeforeFilter(k) ==
    LET rows == IF lof_args.all_transcripts
                THEN filter_rows(mt_in.rows, cols, lof_args)
                ELSE process_consequences(filter_rows(mt_in.rows, cols, lof_args))
        r == rows[CHOOSE i \in 1..Len(rows) : rows[i].key = k]
    IN  r.vep[explode_field]

LofPolicy(x) ==
    IF lof_args.pre_loftee
    THEN most_severe(x.consequence_terms) \in LOF_CSQ_SET
    ELSE x.lof = "HC" /\ x.lof_flags = "NA"

KeptByLofOrAdditional(x) ==
    LofPolicy(x) \/ most_severe(x.consequence_terms) \in lof_args.additional_csq_set

\* C2: with a non-empty additional_csq_set the call builds the retention
\* predicate without raising, and a consequence is kept (and exploded into
\* a row) iff it satisfies the LoF policy or its most severe consequence is
\* in additional_csq_set.
C2_LofOrAdditional ==
    (lof_args.additional_csq_set # {} /\ pc \notin {"lof_ready", "lof_filtered", "lof_field", "KeyError"})
        => /\ pc # "TypeError"
           /\ pc = "lof_exploded" =>
                \A k \in RowKeys(filter_rows(mt_in.rows, cols, lof_args)) :
                    LET before == CsqsBeforeFilter(k) IN
                    {mt[i].csqs : i \in {j \in 1..Len(mt) : mt[j].key = k}}
                        = {before[i] : i \in {j \in 1..Len(before) :
                                                KeptByLofOrAdditional(before[j])}}

\* the mean expression of an annotated row's gene and consequence
MeanExpression(r) ==
    annotate_tx_expression_data(r.key, mt_in.tx_ht[1],
        [gene_id |-> r.group.gene_id,
         most_severe_consequence |-> r.group.most_severe_consequence])

\* C6: with a transcript-expression table every exploded row gets a bucket
\* of {high, medium, low, missing}: high if mean expression >= 0.9, medium
\* if 0.1 < mean expression < 0.9, low if it is defined and <= 0.1, the
\* string "missing" if it is not defined; the bucket is never null.
C6_ExpressionBucket ==
    (pc \in {"lof_annotated", "lof_done", "AttributeError"} /\ mt_in.tx_ht # <<>>)
        => \A i \in 1..Len(mt) :
              LET v == MeanExpression(mt[i])
                  b == mt[i].group.expressed
              IN  /\ b \in {"high", "medium", "low", "missing"}
                  /\ b = (IF v = NA THEN "missing"
                          ELSE IF v >= 90 THEN "high"
                          ELSE IF v > 10 THEN "medium"
                          ELSE "low")

====
